---- MODULE Spec2Model ----
(***************************************************************************)
(* Model of the staged FLAME fitter, backend/flame_fit.py fit_flame_mesh   *)
(* and its inner optimize_stage loop (specification Spec), of the scan job *)
(* backend/main.py process_scan (SpecJob), and of the functions and blocks *)
(* the job is built from: build_qc with the sparse/timeout annotation      *)
(* (SpecQC), normalize_units (SpecUnits), the non-rigid block              *)
(* (SpecNonRigid), crop_face_region (SpecCrop), the non-rigid solver       *)
(* backend/nonrigid_icp.py with build_laplacian_matrix (SpecLaplacian),    *)
(* the system matrix of one iteration (SpecSystem) and the iteration loop  *)
(* (SpecLoop), and the artifact store of the export block (SpecStore).     *)
(*                                                                         *)
(* Units.  Coefficients (shape, expression, pose, scale) are integers in   *)
(* hundredths: 4.0 is 400, 1.0 is 100, jaw_max_rad 0.35 is 35, the scale   *)
(* box [0.5, 2.0] is [50, 200].  Losses are integers in units of 5e-5, so  *)
(* the improvement margin 1e-4 of the early stop is 2.  Wall-clock time is *)
(* an integer number of ticks.  Error metrics are integers in millimetres, *)
(* the outlier ratio is in percent, unit scale factors are in thousandths  *)
(* and bounding-box diagonals in hundredths.  Coordinates of the crop are  *)
(* integers in micrometres; vertex changes of the non-rigid loop are in    *)
(* units of 5e-6, so its convergence threshold 1e-5 is 2.                  *)
(*                                                                         *)
(* Every clamp of the code is elementwise, so each parameter tensor is     *)
(* represented by one of its coefficients; pose_params is split into its   *)
(* head part pose[0:3] (pose_head) and its jaw part pose[3:6] (pose_jaw).  *)
(***************************************************************************)
EXTENDS Integers, Sequences, FiniteSets, TLC

\* ------------------------------------------------------------------ bounds
\* largest per-stage step cap explored: an early stop needs one improving
\* step and 12 stale ones, and must leave the loop before the cap does
LongIters == 14
\* largest finite loss value explored
MaxLoss == 3
\* largest wall-clock budget explored, in ticks
MaxSeconds == 1

\* ------------------------------------------------------- program constants
\* flame_fit.py:171  target_np.shape[0] < 200 raises
SparseFailBelow == 200
\* flame_fit.py:177  target_np.shape[0] < 500 sets sparse_mode
SparseModeBelow == 500
\* flame_fit.py:361-362  clamp_(-4.0, 4.0)
ShapeExprBox == 400
\* flame_fit.py:363  clamp_(-1.0, 1.0)
PoseBox == 100
\* flame_fit.py:368  scale.clamp_(0.5, 2.0)
ScaleMin == 50
ScaleMax == 200
\* flame_fit.py:371  loss_value + 1e-4 < best_loss
MinImprove == 2
\* flame_fit.py:376  stale_steps >= 12
StaleLimit == 12

\* float("inf"), flame_fit.py:323: above every finite loss by more than the
\* improvement margin; also stands for any non-finite loss of a step
PosInf == MaxLoss + MinImprove + 1

isfinite(l) == l <= MaxLoss

\* ------------------------------------------------------------------ inputs
\* sizes of the target cloud after down-sampling (target_np.shape[0])
TargetCounts ==
    {SparseFailBelow - 1, SparseFailBelow, SparseModeBelow - 1, SparseModeBelow}

\* fit_config.jaw_max_rad: the default 0.35, a value above the pose box and a
\* negative one (FitConfig does not validate its fields)
JawMaxChoices == {-10, 35, 150}

\* fit_config.iters_pose / iters_expr / iters_shape
IterChoices ==
    { [iters_pose |-> LongIters, iters_expr |-> 1, iters_shape |-> 2],
      [iters_pose |-> 1, iters_expr |-> 2, iters_shape |-> 1] }

\* max_iters argument of fit_flame_mesh
MaxItersChoices == {1, LongIters}

\* scale after the extent-ratio initialisation (flame_fit.py:212-214)
ScaleInitChoices == {100, 300}

\* values the Adam update can leave in the trainable tensors before the
\* projection: one proposal above every box, one below the boxes of shape,
\* head pose and scale and inside those of expression and jaw
Proposals ==
    { [shape_params |-> 500, expression_params |-> 450, pose_head |-> 150,
       pose_jaw |-> 120, translation |-> 1, scale |-> 250],
      [shape_params |-> -500, expression_params |-> -200, pose_head |-> -150,
       pose_jaw |-> 20, translation |-> -1, scale |-> 25] }

\* duration of one optimizer step, in ticks
StepTicks == {0, 1}

VARIABLES
    cfg,            \* arguments of fit_flame_mesh and the fit_config fields
    params,         \* shape_params, expression_params, pose_params, translation, scale
    sparse_mode,
    timed_out,
    stage_results,  \* list of StageResult (name, loss)
    fpc,            \* position in fit_flame_mesh
    stage,          \* name argument of the running optimize_stage
    step,           \* loop variable of optimize_stage
    best_loss,
    stale_steps,
    loss_value,     \* loss of the latest optimizer step
    elapsed,        \* time.time() - start_ts of the running stage, capped
    total_steps,    \* history: optimizer steps of this fit, all stages
    best_params,    \* history: params at which best_loss was evaluated
    scan,           \* process_scan: the uploaded scan and what its stages yield
    job,            \* process_scan: status, calls made and artifacts of the job
    qc_in,          \* metrics, config and fit flags handed to the QC
    qc,             \* the QCResult
    unit_in,        \* arguments of normalize_units
    unit_result,    \* the UnitResult
    nr_in,          \* adopted fit and deformation outcome at the non-rigid block
    nr_out,         \* mesh, displacements and metrics left by the non-rigid block
    crop_in,        \* point cloud handed to crop_face_region
    crop_out,       \* the cloud it returns
    lap_in,         \* vertex count and faces handed to build_laplacian_matrix
    laplacian,      \* the matrix L it returns
    sys_in,         \* mesh, correspondence mask and landmark pins of an iteration
    system,         \* the system matrix A of that iteration
    icp,            \* the non-rigid loop of deform_template_to_scan
    SCAN_STORE,     \* scan id -> GLB path (the keys; the path is made of the id)
    SCAN_ORDER,     \* scan ids in insertion order
    SCAN_LANDMARKS,
    SCAN_DIAGNOSTICS,
    SCAN_STATUS,    \* scan id -> state of the latest status payload
    exporting       \* jobs inside the export block and their position in it

fitvars == <<cfg, params, sparse_mode, timed_out, stage_results, fpc, stage, step,
             best_loss, stale_steps, loss_value, elapsed, total_steps, best_params>>

jobvars == <<scan, job>>

callvars == <<qc_in, qc, unit_in, unit_result, nr_in, nr_out>>

storevars == <<SCAN_STORE, SCAN_ORDER, SCAN_LANDMARKS, SCAN_DIAGNOSTICS,
               SCAN_STATUS, exporting>>

blockvars == <<crop_in, crop_out, lap_in, laplacian, sys_in, system, icp, storevars>>

vars == <<fitvars, jobvars, callvars, blockvars>>

\* value of a variable that the running specification does not use
Idle == [kind |-> "idle"]

JobIdle == scan = Idle /\ job = Idle

QCIdle == qc_in = Idle /\ qc = Idle

UnitsIdle == unit_in = Idle /\ unit_result = Idle

NonRigidIdle == nr_in = Idle /\ nr_out = Idle

CropIdle == crop_in = Idle /\ crop_out = Idle

LaplacianIdle == lap_in = Idle /\ laplacian = Idle

SystemIdle == sys_in = Idle /\ system = Idle

LoopIdle == icp = Idle

StoreIdle ==
    /\ SCAN_STORE = Idle /\ SCAN_ORDER = Idle /\ SCAN_LANDMARKS = Idle
    /\ SCAN_DIAGNOSTICS = Idle /\ SCAN_STATUS = Idle /\ exporting = Idle

BlocksIdle == CropIdle /\ LaplacianIdle /\ SystemIdle /\ LoopIdle /\ StoreIdle

\* ---------------------------------------------------------------- helpers
\* torch.clamp(x, lo, hi) = min(max(x, lo), hi); when lo > hi the result is hi
clamp(x, lo, hi) ==
    LET m == IF x < lo THEN lo ELSE x
    IN  IF m > hi THEN hi ELSE m

Abs(x) == IF x < 0 THEN -x ELSE x

Min(a, b) == IF a < b THEN a ELSE b

\* variant: shape_params also handed to the rigid stage's optimizer
Trainable_ShapeInRigid(name) ==
    CASE name = "rigid" ->
            {"shape_params", "pose_head", "pose_jaw", "translation", "scale"}
      [] name = "expression" ->
            {"expression_params", "pose_head", "pose_jaw", "translation", "scale"}
      [] name = "shape" ->
            {"shape_params", "expression_params", "pose_head", "pose_jaw",
             "translation", "scale"}

\* the params list handed to torch.optim.Adam by each optimize_stage call
Trainable(name) ==
    CASE name = "rigid" -> {"pose_head", "pose_jaw", "translation", "scale"}
      [] name = "expression" ->
            {"expression_params", "pose_head", "pose_jaw", "translation", "scale"}
      [] name = "shape" ->
            {"shape_params", "expression_params", "pose_head", "pose_jaw",
             "translation", "scale"}

\* optimizer.step(): only the tensors of the optimizer's list move
AdamStep(p, u, name) ==
    [f \in DOMAIN p |-> IF f \in Trainable(name) THEN u[f] ELSE p[f]]

\* variant: the jaw reset under freeze_jaw left out
JawProject_NoFreeze(x, jaw_max, freeze_jaw) ==
    clamp(clamp(x, -PoseBox, PoseBox), -jaw_max, jaw_max)

\* jaw entries after a step: the clamp to the pose box, the clamp to
\* jaw_max_rad, and the reset under freeze_jaw
JawProject(x, jaw_max, freeze_jaw) ==
    IF freeze_jaw THEN 0
    ELSE clamp(clamp(x, -PoseBox, PoseBox), -jaw_max, jaw_max)

\* variant: the scale clamp left out
Project_NoScaleClamp(p, c) ==
    [shape_params |-> clamp(p.shape_params, -ShapeExprBox, ShapeExprBox),
     expression_params |-> clamp(p.expression_params, -ShapeExprBox, ShapeExprBox),
     pose_head |-> clamp(p.pose_head, -PoseBox, PoseBox),
     pose_jaw |-> JawProject(p.pose_jaw, c.jaw_max_rad, c.freeze_jaw),
     translation |-> p.translation,
     scale |-> p.scale]

\* the projection block run under no_grad after optimizer.step()
Project(p, c) ==
    [shape_params |-> clamp(p.shape_params, -ShapeExprBox, ShapeExprBox),
     expression_params |-> clamp(p.expression_params, -ShapeExprBox, ShapeExprBox),
     pose_head |-> clamp(p.pose_head, -PoseBox, PoseBox),
     pose_jaw |-> JawProject(p.pose_jaw, c.jaw_max_rad, c.freeze_jaw),
     translation |-> p.translation,
     scale |-> clamp(p.scale, ScaleMin, ScaleMax)]

\* iters argument of the optimize_stage call for each stage
StageIters(name, c) ==
    CASE name = "rigid" -> c.iters.iters_pose
      [] name = "expression" -> c.iters.iters_expr
      [] name = "shape" -> c.iters.iters_shape

\* range(min(iters, max_iters))
StepCap(name, c) == Min(StageIters(name, c), c.max_iters)

\* the condition guarding stages 2 and 3
RunsLaterStages(sparse, c) == ~sparse /\ ~c.freeze_expression

\* variant: the failure test made inclusive
TooSparse_Inclusive(n) == n <= SparseFailBelow

\* target_np.shape[0] < 200: the fit raises
TooSparse(n) == n < SparseFailBelow

\* variant: the low-density test off by one
LowDensity_OffByOne(n) == n < SparseModeBelow - 1

\* target_np.shape[0] < 500: sparse_mode
LowDensity(n) == n < SparseModeBelow

\* variant: the improvement margin left out
Improves_NoMargin(l, best) == l < best

\* loss_value + 1e-4 < best_loss
Improves(l, best) == l + MinImprove < best

\* variant: the finiteness test placed after optimizer.step() and the clamps
DivergedParams_StepFirst(p, u, name, c) == Project(AdamStep(p, u, name), c)

\* the parameter tensors when the non-finite loss raises: the test precedes
\* loss.backward() and optimizer.step(), so they are those of the step before
DivergedParams(p, u, name, c) == p

\* position after entering optimize_stage or finishing an iteration: the
\* loop goes on while range() has values left and no break happened
LoopPc(k, stale, cap) ==
    IF k < cap /\ stale < StaleLimit THEN "loop" ELSE "stage_end"

\* -------------------------------------------------------------------- Init
Init ==
    /\ cfg \in [target_count : TargetCounts,
                freeze_expression : BOOLEAN,
                freeze_jaw : BOOLEAN,
                jaw_max_rad : JawMaxChoices,
                iters : IterChoices,
                max_iters : MaxItersChoices,
                max_seconds : {MaxSeconds}]
    /\ \E s \in ScaleInitChoices :
          params = [shape_params |-> 0, expression_params |-> 0, pose_head |-> 0,
                    pose_jaw |-> 0, translation |-> 0, scale |-> s]
    /\ sparse_mode = FALSE
    /\ timed_out = FALSE
    /\ stage_results = <<>>
    /\ fpc = "entry"
    /\ stage = "none"
    /\ step = 0
    /\ best_loss = PosInf
    /\ stale_steps = 0
    /\ loss_value = PosInf
    /\ elapsed = 0
    /\ total_steps = 0
    /\ best_params = params
    /\ JobIdle /\ QCIdle /\ UnitsIdle /\ NonRigidIdle /\ BlocksIdle

\* ----------------------------------------------------------------- actions
\* entering optimize_stage(name, ...): fresh optimizer, start_ts, best_loss
\* and stale_steps
EnterStage(name) ==
    /\ stage' = name
    /\ step' = 0
    /\ best_loss' = PosInf
    /\ stale_steps' = 0
    /\ elapsed' = 0
    /\ fpc' = LoopPc(0, 0, StepCap(name, cfg))

\* fit_flame_mesh up to the first optimize_stage call: the density checks
RaiseTooSparse ==
    /\ fpc = "entry"
    /\ TooSparse(cfg.target_count)
    /\ fpc' = "raised_sparse"
    /\ UNCHANGED <<cfg, params, sparse_mode, timed_out, stage_results, stage, step,
                   best_loss, stale_steps, loss_value, elapsed, total_steps,
                   best_params>>
    /\ UNCHANGED <<jobvars, callvars, blockvars>>

StartFit ==
    /\ fpc = "entry"
    /\ ~TooSparse(cfg.target_count)
    /\ sparse_mode' = LowDensity(cfg.target_count)
    /\ params' = IF cfg.freeze_jaw THEN [params EXCEPT !.pose_jaw = 0] ELSE params
    /\ best_params' = params'
    /\ EnterStage("rigid")
    /\ UNCHANGED <<cfg, timed_out, stage_results, loss_value, total_steps>>
    /\ UNCHANGED <<jobvars, callvars, blockvars>>

\* top of an iteration with the stage's budget used up
StepTimeout ==
    /\ fpc = "loop"
    /\ elapsed > cfg.max_seconds
    /\ timed_out' = TRUE
    /\ fpc' = "stage_end"
    /\ UNCHANGED <<cfg, params, sparse_mode, stage_results, stage, step, best_loss,
                   stale_steps, loss_value, elapsed, total_steps, best_params>>
    /\ UNCHANGED <<jobvars, callvars, blockvars>>

\* an iteration whose loss is NaN or infinite: the raise comes before
\* loss.backward() and optimizer.step()
StepDiverged ==
    /\ fpc = "loop"
    /\ elapsed <= cfg.max_seconds
    /\ loss_value' = PosInf
    /\ \E u \in Proposals : params' = DivergedParams(params, u, stage, cfg)
    /\ fpc' = "raised_diverged"
    /\ UNCHANGED <<cfg, sparse_mode, timed_out, stage_results, stage, step,
                   best_loss, stale_steps, elapsed, total_steps, best_params>>
    /\ UNCHANGED <<jobvars, callvars, blockvars>>

\* a complete iteration: loss, backward, optimizer.step(), projection,
\* early-stop bookkeeping
StepOptimize ==
    /\ fpc = "loop"
    /\ elapsed <= cfg.max_seconds
    /\ \E l \in 0..MaxLoss, u \in Proposals, d \in StepTicks :
          /\ loss_value' = l
          /\ params' = Project(AdamStep(params, u, stage), cfg)
          /\ elapsed' = Min(elapsed + d, cfg.max_seconds + 1)
          /\ IF Improves(l, best_loss)
             THEN /\ best_loss' = l
                  /\ stale_steps' = 0
                  /\ best_params' = params
             ELSE /\ best_loss' = best_loss
                  /\ stale_steps' = stale_steps + 1
                  /\ best_params' = best_params
          /\ step' = step + 1
          /\ total_steps' = total_steps + 1
          /\ fpc' = LoopPc(step', stale_steps', StepCap(stage, cfg))
    /\ UNCHANGED <<cfg, sparse_mode, timed_out, stage_results, stage>>
    /\ UNCHANGED <<jobvars, callvars, blockvars>>

AppendResult == Append(stage_results, [name |-> stage, loss |-> best_loss])

\* end of optimize_stage("rigid") followed by stage 2
RigidThenExpression ==
    /\ fpc = "stage_end" /\ stage = "rigid"
    /\ RunsLaterStages(sparse_mode, cfg)
    /\ stage_results' = AppendResult
    /\ EnterStage("expression")
    /\ UNCHANGED <<cfg, params, sparse_mode, timed_out, loss_value, total_steps,
                   best_params>>
    /\ UNCHANGED <<jobvars, callvars, blockvars>>

\* end of optimize_stage("expression") followed by stage 3
ExpressionThenShape ==
    /\ fpc = "stage_end" /\ stage = "expression"
    /\ stage_results' = AppendResult
    /\ EnterStage("shape")
    /\ UNCHANGED <<cfg, params, sparse_mode, timed_out, loss_value, total_steps,
                   best_params>>
    /\ UNCHANGED <<jobvars, callvars, blockvars>>

\* end of the last optimize_stage, final FLAME evaluation and return
ReturnMesh ==
    /\ fpc = "stage_end"
    /\ \/ stage = "shape"
       \/ stage = "rigid" /\ ~RunsLaterStages(sparse_mode, cfg)
    /\ stage_results' = AppendResult
    /\ fpc' = "returned"
    /\ UNCHANGED <<cfg, params, sparse_mode, timed_out, stage, step, best_loss,
                   stale_steps, loss_value, elapsed, total_steps, best_params>>
    /\ UNCHANGED <<jobvars, callvars, blockvars>>

Next ==
    \/ RaiseTooSparse
    \/ StartFit
    \/ StepTimeout
    \/ StepDiverged
    \/ StepOptimize
    \/ RigidThenExpression
    \/ ExpressionThenShape
    \/ ReturnMesh

Spec == Init /\ [][Next]_vars

\* ============================================================ build_qc
\* largest error metric explored, in millimetres
MaxMm == 7

\* qc.py:19  outlier_ratio > 0.1, in percent
OutlierWarnAbove == 10
\* qc.py:23-25  the caps 0.5, 0.3 and 0.2 of the three penalties, in tenths
CapSurface == 5
CapNose == 3
CapLandmark == 2

Max(a, b) == IF a > b THEN a ELSE b

\* config.max_surface_mm_p95, max_nose_mm_p95, max_landmark_mm: the defaults
\* of FitConfig (6.0, 4.0, 4.0) and a configuration with three different
\* thresholds
ThresholdChoices ==
    { [max_surface_mm_p95 |-> 6, max_nose_mm_p95 |-> 4, max_landmark_mm |-> 4],
      [max_surface_mm_p95 |-> 2, max_nose_mm_p95 |-> 5, max_landmark_mm |-> 3] }

\* metrics["outlier_ratio"], in percent
OutlierChoices == {0, OutlierWarnAbove, OutlierWarnAbove + 1}

\* the confidence is kept as an exact fraction num / den; den is a common
\* multiple of 10 and of the three divisors threshold * 2
ConfDen(config) ==
    10 * (config.max_surface_mm_p95 * 2) * (config.max_nose_mm_p95 * 2)
       * (config.max_landmark_mm * 2)

\* variant: the cap of a penalty left out
Penalty_NoCap(value, threshold, cap, den) == value * (den \div (threshold * 2))

\* min(value / (threshold * 2), cap), as a numerator over den
Penalty(value, threshold, cap, den) ==
    Min(value * (den \div (threshold * 2)), cap * (den \div 10))

build_qc(metrics, config) ==
    LET surface == IF metrics.p95_mm > config.max_surface_mm_p95
                   THEN <<"HIGH_SURFACE_ERROR">> ELSE <<>>
        nose == IF metrics.nose_p95_mm > config.max_nose_mm_p95
                THEN <<"HIGH_NOSE_ERROR">> ELSE <<>>
        landmark == IF metrics.landmark_rms_mm > config.max_landmark_mm
                    THEN <<"LANDMARK_MISMATCH">> ELSE <<>>
        outlier == IF metrics.outlier_ratio > OutlierWarnAbove
                   THEN <<"HIGH_OUTLIER_RATIO">> ELSE <<>>
        den == ConfDen(config)
        confidence ==
            den - Penalty(metrics.p95_mm, config.max_surface_mm_p95, CapSurface, den)
                - Penalty(metrics.nose_p95_mm, config.max_nose_mm_p95, CapNose, den)
                - Penalty(metrics.landmark_rms_mm, config.max_landmark_mm,
                          CapLandmark, den)
    IN  [kind |-> "qc",
         pass_fit |-> surface = <<>> /\ nose = <<>> /\ landmark = <<>>,
         confidence |-> [num |-> Max(0, Min(den, confidence)), den |-> den],
         warnings |-> surface \o nose \o landmark \o outlier]

\* variant: the timeout warning appended without clearing pass_fit
AnnotateQC_TimeoutKeepsPass(q, sparse, timed) ==
    LET q1 == IF sparse
              THEN [q EXCEPT !.warnings = Append(@, "POINTCLOUD_SPARSE"),
                             !.pass_fit = FALSE]
              ELSE q
    IN  IF timed
        THEN [q1 EXCEPT !.warnings = Append(@, "FIT_TIMEOUT")]
        ELSE q1

\* the flags of the fit added to its QC by process_scan
AnnotateQC(q, sparse, timed) ==
    LET q1 == IF sparse
              THEN [q EXCEPT !.warnings = Append(@, "POINTCLOUD_SPARSE"),
                             !.pass_fit = FALSE]
              ELSE q
    IN  IF timed
        THEN [q1 EXCEPT !.warnings = Append(@, "FIT_TIMEOUT"),
                        !.pass_fit = FALSE]
        ELSE q1

\* the QC of one fit: build_qc followed by the annotation
FinalQC(metrics, config, sparse, timed) ==
    AnnotateQC(build_qc(metrics, config), sparse, timed)

\* the fit variables while another specification runs
FitIdle ==
    /\ cfg = Idle /\ params = Idle /\ best_params = Idle
    /\ sparse_mode = FALSE /\ timed_out = FALSE
    /\ stage_results = <<>>
    /\ fpc = "idle" /\ stage = "none"
    /\ step = 0 /\ stale_steps = 0 /\ elapsed = 0 /\ total_steps = 0
    /\ best_loss = PosInf /\ loss_value = PosInf

MetricChoices ==
    [p95_mm : 0..MaxMm, nose_p95_mm : 0..MaxMm, landmark_rms_mm : 0..MaxMm,
     outlier_ratio : OutlierChoices]

InitQC ==
    /\ qc_in \in [kind : {"args"}, metrics : MetricChoices,
                  config : ThresholdChoices,
                  sparse_mode : BOOLEAN, timed_out : BOOLEAN]
    /\ qc = Idle
    /\ FitIdle /\ JobIdle /\ UnitsIdle /\ NonRigidIdle /\ BlocksIdle

\* qc = build_qc(metrics, fit_config) and the two flag tests after it
BuildQC ==
    /\ qc.kind = "idle"
    /\ qc' = FinalQC(qc_in.metrics, qc_in.config, qc_in.sparse_mode,
                     qc_in.timed_out)
    /\ UNCHANGED <<fitvars, jobvars, qc_in, unit_in, unit_result, nr_in, nr_out,
                   blockvars>>

NextQC == BuildQC

SpecQC == InitQC /\ [][NextQC]_vars

\* ====================================================== normalize_units
\* units.py:38, 42  the factor 0.001, in thousandths
MillimetreScale == 1
\* the factor 1.0, in thousandths
UnitScale == 1000
\* units.py:40  diag > 1.0, in hundredths
DiagMillimetresAbove == 100
\* units.py:43  diag < 0.02, in hundredths
DiagSuspectBelow == 2

\* the point cloud: empty, or with the diagonal of its bounding box
CloudChoices ==
    { [empty |-> TRUE, diag |-> 0] } \cup
    [empty : {FALSE},
     diag : {0, DiagSuspectBelow - 1, DiagSuspectBelow, DiagSuspectBelow + 1,
             DiagMillimetresAbove, DiagMillimetresAbove + 1}]

\* override_scale: None is the empty sequence, a float f is <<f>>
OverrideScaleChoices == {<<>>, <<0>>, <<-1000>>, <<UnitScale>>, <<2500>>}

\* override_units: None is "None"
OverrideUnitChoices == {"None", "meters", "millimeters", "feet"}

\* variant: any given override_scale applies, positive or not
OverrideScaleApplies_AnyGiven(override_scale) == override_scale # <<>>

\* override_scale is not None and override_scale > 0
OverrideScaleApplies(override_scale) ==
    override_scale # <<>> /\ override_scale[1] > 0

UnitResult(units_inferred, unit_scale_applied, warnings) ==
    [kind |-> "result",
     units_inferred |-> units_inferred,
     unit_scale_applied |-> unit_scale_applied,
     warnings |-> warnings,
     rescaled |-> unit_scale_applied # UnitScale]

normalize_units(point_cloud, override_scale, override_units) ==
    IF point_cloud.empty
    THEN UnitResult("unknown", UnitScale, <<"POINTCLOUD_EMPTY">>)
    ELSE IF OverrideScaleApplies(override_scale)
    THEN UnitResult("override", override_scale[1], <<>>)
    ELSE IF override_units \in {"meters", "millimeters"}
    THEN UnitResult(override_units,
                    IF override_units = "millimeters" THEN MillimetreScale
                    ELSE UnitScale,
                    <<>>)
    ELSE IF point_cloud.diag > DiagMillimetresAbove
    THEN UnitResult("millimeters", MillimetreScale, <<>>)
    ELSE IF point_cloud.diag < DiagSuspectBelow
    THEN UnitResult("unknown", UnitScale, <<"UNIT_SUSPECT">>)
    ELSE UnitResult("meters", UnitScale, <<>>)

InitUnits ==
    /\ unit_in \in [kind : {"args"}, point_cloud : CloudChoices,
                    override_scale : OverrideScaleChoices,
                    override_units : OverrideUnitChoices]
    /\ unit_result = Idle
    /\ FitIdle /\ JobIdle /\ QCIdle /\ NonRigidIdle /\ BlocksIdle

NormalizeUnits ==
    /\ unit_result.kind = "idle"
    /\ unit_result' = normalize_units(unit_in.point_cloud, unit_in.override_scale,
                                      unit_in.override_units)
    /\ UNCHANGED <<fitvars, jobvars, qc_in, qc, unit_in, nr_in, nr_out, blockvars>>

NextUnits == NormalizeUnits

SpecUnits == InitUnits /\ [][NextUnits]_vars

\* ================================================ the non-rigid block
\* main.py:615  metrics.get("p95_mm", 100) < 20
NonRigidP95Below == 20
\* main.py:627  nonrigid_result.mean_error < 0.010, in millimetres
AcceptMeanBelow == 10

\* what deform_template_to_scan does for the scan: it raises, or returns a
\* NonRigidICPResult (mean_error and p95_error in millimetres)
NonRigidOutcomes ==
    { [kind |-> "raises"] } \cup
    [kind : {"result"}, converged : BOOLEAN,
     mean_error : {AcceptMeanBelow - 1, AcceptMeanBelow},
     p95_error : {4, 30}]

\* sparse_mode, timed_out and p95 of the adopted fit
AdoptedChoices ==
    [sparse_mode : BOOLEAN, timed_out : BOOLEAN,
     p95_mm : {4, NonRigidP95Below - 1, NonRigidP95Below}]

\* the test guarding the deform_template_to_scan call
NonRigidGate(sparse, timed, p95_mm) ==
    ~sparse /\ ~timed /\ p95_mm < NonRigidP95Below

\* nonrigid_result.converged or nonrigid_result.mean_error < 0.010
NonRigidAccepted(result) ==
    result.converged \/ result.mean_error < AcceptMeanBelow

NonRigidOut(called, mesh, displacements, base, file, metrics, raised) ==
    [kind |-> "result",
     deform_called |-> called,
     mesh |-> mesh,                       \* vertices of the mesh exported
     mesh_displacements |-> displacements, \* not None after the block
     flame_base_vertices |-> base,        \* not None after the block
     displacement_file |-> file,          \* <scan_id>_displacements.npy written
     nonrigid_metrics |-> metrics,        \* nonrigid_* keys added to metrics
     raised |-> raised]                   \* the block ended in its except clause

\* the try block of the non-rigid phase and its except clauses; save_ok
\* tells whether np.save of the displacement file succeeds
NonRigidStage(adopted, nonrigid, save_ok) ==
    IF ~NonRigidGate(adopted.sparse_mode, adopted.timed_out, adopted.p95_mm)
    THEN NonRigidOut(FALSE, "model_space", FALSE, FALSE, FALSE, FALSE, FALSE)
    ELSE IF nonrigid.kind = "raises"
    THEN NonRigidOut(TRUE, "model_space", FALSE, TRUE, FALSE, FALSE, TRUE)
    ELSE IF ~NonRigidAccepted(nonrigid)
    THEN NonRigidOut(TRUE, "model_space", FALSE, FALSE, FALSE, FALSE, FALSE)
    ELSE IF save_ok
    THEN NonRigidOut(TRUE, "deformed", TRUE, TRUE, TRUE, TRUE, FALSE)
    ELSE NonRigidOut(TRUE, "deformed", TRUE, TRUE, FALSE, FALSE, TRUE)

InitNonRigid ==
    /\ nr_in \in [kind : {"args"}, adopted : AdoptedChoices,
                  nonrigid : NonRigidOutcomes, save_ok : BOOLEAN]
    /\ nr_out = Idle
    /\ FitIdle /\ JobIdle /\ QCIdle /\ UnitsIdle /\ BlocksIdle

NonRigidDeform ==
    /\ nr_out.kind = "idle"
    /\ nr_out' = NonRigidStage(nr_in.adopted, nr_in.nonrigid, nr_in.save_ok)
    /\ UNCHANGED <<fitvars, jobvars, qc_in, qc, unit_in, unit_result, nr_in,
                   blockvars>>

NextNonRigid == NonRigidDeform

SpecNonRigid == InitNonRigid /\ [][NextNonRigid]_vars

\* ==================================================== crop_face_region
\* A cloud is a list of groups of points that share their coordinates: x,
\* y and z in whole millimetres and the number of points of the group.  The
\* colours, when the cloud has them, run in parallel to the points; the
\* colour of a group is its position in the input.  Derived lengths
\* (percentiles, ranges, the radius) are integers in micrometres.

\* largest number of groups of a cloud
MaxGroups == 3

\* main.py:137  pts.shape[0] < 100 returns the input
CropMinInput == 100
\* main.py:142-143  np.percentile(., [10, 90])
PercentileLow == 10
PercentileHigh == 90
\* main.py:146, 150, 151  max(., 1e-6), in micrometres
RangeFloor == 1

GroupChoices == [x : {0, 1}, y : {0, 2}, z : {0, 2}, count : {10, 80}]

\* the clouds of k groups, with and without colours
CropCloudChoices(k) ==
    { [points |-> pts, colors |-> IF colored THEN [i \in 1..k |-> i] ELSE <<>>] :
        pts \in [1..k -> GroupChoices], colored \in BOOLEAN }

RECURSIVE SumCounts(_)
SumCounts(pts) == IF pts = <<>> THEN 0 ELSE Head(pts).count + SumCounts(Tail(pts))

Coordinate(g, axis) == IF axis = "x" THEN g.x ELSE IF axis = "y" THEN g.y ELSE g.z

RECURSIVE CountOf(_, _)
CountOf(pts, I) ==
    IF I = {} THEN 0
    ELSE LET i == CHOOSE j \in I : TRUE IN pts[i].count + CountOf(pts, I \ {i})

\* element k (from 0) of the sorted coordinates of the points
SortedAt(pts, axis, k) ==
    LET values == {Coordinate(pts[i], axis) : i \in 1..Len(pts)}
        atmost(v) == CountOf(pts, {i \in 1..Len(pts) : Coordinate(pts[i], axis) <= v})
        reached == {v \in values : atmost(v) > k}
    IN  CHOOSE v \in reached : \A w \in reached : v <= w

\* np.percentile with linear interpolation, in micrometres
Percentile(pts, axis, q) ==
    LET n == SumCounts(pts)
        pos == q * (n - 1)
        lo == SortedAt(pts, axis, pos \div 100)
        hi == SortedAt(pts, axis, Min(pos \div 100 + 1, n - 1))
    IN  1000 * lo + 10 * (pos % 100) * (hi - lo)

Extreme(pts, axis, largest) ==
    LET values == {Coordinate(pts[i], axis) : i \in 1..Len(pts)}
    IN  CHOOSE v \in values : \A w \in values : IF largest THEN w <= v ELSE v <= w

\* the six numbers the mask is made of (main.py:142-152)
CropBox(pts) ==
    LET x_min == Percentile(pts, "x", PercentileLow)
        x_max == Percentile(pts, "x", PercentileHigh)
        y_min == Percentile(pts, "y", PercentileLow)
        y_max == Percentile(pts, "y", PercentileHigh)
        z_min == 1000 * Extreme(pts, "z", FALSE)
        z_max == 1000 * Extreme(pts, "z", TRUE)
    IN  [x_min |-> x_min, x_max |-> x_max, y_min |-> y_min, y_max |-> y_max,
         z_min |-> z_min,
         z_range |-> Max(z_max - z_min, RangeFloor),
         x_mid |-> Percentile(pts, "x", 50),
         y_mid |-> Percentile(pts, "y", 50),
         reach |-> Max(Max(x_max - x_min, RangeFloor), Max(y_max - y_min, RangeFloor))]

\* the four conditions of the mask for the points of group g:
\* z <= z_min + 0.6 * z_range and sqrt(dx^2 + dy^2) <= 0.6 * reach
InPercentiles(g, b) ==
    /\ 1000 * g.x >= b.x_min /\ 1000 * g.x <= b.x_max
    /\ 1000 * g.y >= b.y_min /\ 1000 * g.y <= b.y_max

InNearDepth(g, b) == 10 * (1000 * g.z - b.z_min) <= 6 * b.z_range

InRadius(g, b) ==
    LET dx == (1000 * g.x - b.x_mid) \div 10
        dy == (1000 * g.y - b.y_mid) \div 10
        r == b.reach
    IN  10000 * (dx * dx + dy * dy) <= 36 * r * r

InMask(g, b) == InPercentiles(g, b) /\ InNearDepth(g, b) /\ InRadius(g, b)

\* a list restricted to the positions of I, order kept (pts[mask])
RECURSIVE Masked(_, _, _)
Masked(q, I, i) ==
    IF i > Len(q) THEN <<>>
    ELSE (IF i \in I THEN <<q[i]>> ELSE <<>>) \o Masked(q, I, i + 1)

\* main.py:162 without the test: every mask is applied
SkipsCrop_Never(kept, n) == FALSE

\* main.py:162  mask.mean() < 0.2
SkipsCrop(kept, n) == 5 * kept < n

crop_face_region(point_cloud) ==
    LET pts == point_cloud.points
        n == SumCounts(pts)
    IN  IF n < CropMinInput THEN [cloud |-> point_cloud, cropped |-> FALSE]
        ELSE
          LET b == CropBox(pts)
              mask == {i \in 1..Len(pts) : InMask(pts[i], b)}
          IN  IF SkipsCrop(CountOf(pts, mask), n)
              THEN [cloud |-> point_cloud, cropped |-> FALSE]
              ELSE [cloud |-> [points |-> Masked(pts, mask, 1),
                               colors |-> Masked(point_cloud.colors, mask, 1)],
                    cropped |-> TRUE]

InitCrop ==
    /\ \E k \in 1..MaxGroups : crop_in \in CropCloudChoices(k)
    /\ crop_out = Idle
    /\ FitIdle /\ JobIdle /\ QCIdle /\ UnitsIdle /\ NonRigidIdle
    /\ LaplacianIdle /\ SystemIdle /\ LoopIdle /\ StoreIdle

CropFaceRegion ==
    /\ crop_out = Idle
    /\ crop_out' = crop_face_region(crop_in)
    /\ UNCHANGED <<fitvars, jobvars, callvars, crop_in, lap_in, laplacian, sys_in,
                   system, icp, storevars>>

NextCrop == CropFaceRegion

SpecCrop == InitCrop /\ [][NextCrop]_vars

\* =============================================== build_laplacian_matrix
\* largest vertex count and largest number of faces explored
MaxVerts == 3
MaxFaces == 2

Vertices(n_verts) == 0..(n_verts - 1)

\* faces of a mesh of n_verts vertices: any three vertex indices, so a face
\* may repeat a vertex and two faces may share edges or be equal
FaceChoices(n_verts) ==
    Vertices(n_verts) \X Vertices(n_verts) \X Vertices(n_verts)

\* the meshes of n vertices and k faces
MeshChoices(n, k) == [n_verts : {n}, faces : [1..k -> FaceChoices(n)]]

\* adjacency[v] after the loop over the faces (nonrigid_icp.py:98-107): the
\* other end of every face edge (face[i], face[(i + 1) % 3]) that has v at
\* one end
Adjacency(faces, v) ==
    { w \in UNION {{f[1], f[2], f[3]} : f \in {faces[k] : k \in 1..Len(faces)}} :
        \E k \in 1..Len(faces), i \in 1..3 :
            LET v1 == faces[k][i]
                v2 == faces[k][(i % 3) + 1]
            IN  (v1 = v /\ v2 = w) \/ (v2 = v /\ v1 = w) }

\* the (row, col, data) triples of the loop over the vertices
\* (nonrigid_icp.py:112-126)
Triples(n_verts, faces) ==
    UNION { LET neighbors == Adjacency(faces, i)
            IN  IF neighbors = {} THEN {}
                ELSE {<<i, i, Cardinality(neighbors)>>}
                     \cup {<<i, j, -1>> : j \in neighbors} :
            i \in Vertices(n_verts) }

RECURSIVE SumData(_)
SumData(T) ==
    IF T = {} THEN 0
    ELSE LET t == CHOOSE u \in T : TRUE IN t[3] + SumData(T \ {t})

\* a matrix that keeps one of the triples of a position instead of their sum
CsrEntry_KeepsOne(T, i, j) ==
    LET here == {t \in T : t[1] = i /\ t[2] = j}
    IN  IF here = {} THEN 0
        ELSE (CHOOSE t \in here : \A u \in here : t[3] <= u[3])[3]

\* sparse.csr_matrix((data, (rows, cols))): the triples of one position are
\* summed
CsrEntry(T, i, j) == SumData({t \in T : t[1] = i /\ t[2] = j})

build_laplacian_matrix(n_verts, faces) ==
    LET T == Triples(n_verts, faces)
    IN  [kind |-> "matrix",
         L |-> [i \in Vertices(n_verts) |->
                  [j \in Vertices(n_verts) |-> CsrEntry(T, i, j)]]]

InitLaplacian ==
    /\ \E n \in 1..MaxVerts, k \in 0..MaxFaces : lap_in \in MeshChoices(n, k)
    /\ laplacian = Idle
    /\ FitIdle /\ JobIdle /\ QCIdle /\ UnitsIdle /\ NonRigidIdle
    /\ CropIdle /\ SystemIdle /\ LoopIdle /\ StoreIdle

BuildLaplacian ==
    /\ laplacian = Idle
    /\ laplacian' = build_laplacian_matrix(lap_in.n_verts, lap_in.faces)
    /\ UNCHANGED <<fitvars, jobvars, callvars, crop_in, crop_out, lap_in, sys_in,
                   system, icp, storevars>>

NextLaplacian == BuildLaplacian

SpecLaplacian == InitLaplacian /\ [][NextLaplacian]_vars

\* ============================= the system matrix of a non-rigid iteration
\* main.py:607-608  NonRigidICPConfig(stiffness=5.0, landmark_weight=50.0)
Stiffness == 5
LandmarkWeight == 50

\* a mesh, the vertices with a valid correspondence and the vertices pinned
\* by a landmark pair
SystemChoices(n, k) ==
    [n_verts : {n}, faces : [1..k -> FaceChoices(n)],
     valid_mask : SUBSET Vertices(n), landmark_pairs : SUBSET Vertices(n)]

RECURSIVE SumOver(_, _)
\* the sum of the values of the function term over the set I
SumOver(I, term) ==
    IF I = {} THEN 0
    ELSE LET i == CHOOSE k \in I : TRUE IN term[i] + SumOver(I \ {i}, term)

\* A = W + alpha * L.T @ L + landmark_matrix (nonrigid_icp.py:302-330)
SystemMatrix(n_verts, L, valid_mask, landmark_pairs) ==
    [kind |-> "matrix",
     A |-> [i \in Vertices(n_verts) |-> [j \in Vertices(n_verts) |->
        LET LtL == [k \in Vertices(n_verts) |-> L[k][i] * L[k][j]]
        IN  (IF i = j /\ i \in valid_mask THEN 1 ELSE 0)
            + Stiffness * SumOver(Vertices(n_verts), LtL)
            + (IF i = j /\ i \in landmark_pairs THEN LandmarkWeight ELSE 0)]]]

InitSystem ==
    /\ \E n \in 1..MaxVerts, k \in 0..MaxFaces : sys_in \in SystemChoices(n, k)
    /\ system = Idle
    /\ FitIdle /\ JobIdle /\ QCIdle /\ UnitsIdle /\ NonRigidIdle
    /\ CropIdle /\ LaplacianIdle /\ LoopIdle /\ StoreIdle

AssembleSystem ==
    /\ system = Idle
    /\ system' = SystemMatrix(sys_in.n_verts,
                              build_laplacian_matrix(sys_in.n_verts, sys_in.faces).L,
                              sys_in.valid_mask, sys_in.landmark_pairs)
    /\ UNCHANGED <<fitvars, jobvars, callvars, crop_in, crop_out, lap_in, laplacian,
                   sys_in, icp, storevars>>

NextSystem == AssembleSystem

SpecSystem == InitSystem /\ [][NextSystem]_vars

\* ================================= the loop of deform_template_to_scan
\* The vertices are represented by one coordinate of one vertex, an integer
\* in units of 5e-6, so the RMS of the vertex change is the absolute
\* difference of two values; a solve of a singular system leaves NaN.

\* largest config.max_iterations explored
MaxIterations == 3
\* largest coordinate explored
MaxCoordinate == 3

\* nonrigid_icp.py:40, main.py:609  convergence_threshold = 1e-5
ConvergenceThreshold == 2

NaN == [nan |-> TRUE, v |-> 0]

Finite(v) == [nan |-> FALSE, v |-> v]

\* what spsolve can leave in new_vertices; NaN in the right-hand side
\* gives NaN again
SolveOutcomes(vertices) ==
    IF vertices.nan THEN {NaN}
    ELSE {NaN} \cup {Finite(v) : v \in 0..MaxCoordinate}

\* np.sqrt(np.mean(np.linalg.norm(new_vertices - vertices, axis=1) ** 2))
RmsChange(new_vertices, vertices) ==
    IF new_vertices.nan \/ vertices.nan THEN NaN
    ELSE Finite(Abs(new_vertices.v - vertices.v))

\* the test with <= in place of <
Converges_AtThreshold(rms_change) ==
    ~rms_change.nan /\ rms_change.v <= ConvergenceThreshold

\* nonrigid_icp.py:345  rms_change < config.convergence_threshold; a
\* comparison with NaN is false
Converges(rms_change) ==
    ~rms_change.nan /\ rms_change.v < ConvergenceThreshold

InitLoop ==
    /\ \E m \in 0..MaxIterations, v \in 0..MaxCoordinate :
          icp = [kind |-> "loop",
                 max_iterations |-> m,
                 pc |-> "loop",
                 iteration |-> 0,          \* next value of the loop variable
                 vertices |-> Finite(v),   \* after the rigid alignment
                 converged |-> FALSE,
                 iterations_used |-> 0,
                 changes |-> <<>>]         \* history: rms_change of each iteration
    /\ FitIdle /\ JobIdle /\ QCIdle /\ UnitsIdle /\ NonRigidIdle
    /\ CropIdle /\ LaplacianIdle /\ SystemIdle /\ StoreIdle

LoopUnchanged ==
    UNCHANGED <<fitvars, jobvars, callvars, crop_in, crop_out, lap_in, laplacian,
                sys_in, system, storevars>>

\* one pass of the loop body (nonrigid_icp.py:286-348)
Iterate ==
    /\ icp.pc = "loop"
    /\ icp.iteration < icp.max_iterations
    /\ \E new_vertices \in SolveOutcomes(icp.vertices) :
          LET rms_change == RmsChange(new_vertices, icp.vertices)
              stop == Converges(rms_change)
          IN  icp' = [icp EXCEPT
                        !.vertices = new_vertices,
                        !.iterations_used = icp.iteration + 1,
                        !.changes = Append(@, rms_change),
                        !.converged = IF stop THEN TRUE ELSE @,
                        !.iteration = IF stop THEN @ ELSE @ + 1,
                        !.pc = IF stop THEN "final" ELSE @]
    /\ LoopUnchanged

\* range(config.max_iterations) is exhausted
ExhaustIterations ==
    /\ icp.pc = "loop"
    /\ icp.iteration >= icp.max_iterations
    /\ icp' = [icp EXCEPT !.pc = "final"]
    /\ LoopUnchanged

\* the final correspondences, the metrics and the return
\* (nonrigid_icp.py:350-378)
ReturnResult ==
    /\ icp.pc = "final"
    /\ icp' = [icp EXCEPT !.pc = "returned"]
    /\ LoopUnchanged

NextLoop == Iterate \/ ExhaustIterations \/ ReturnResult

SpecLoop == InitLoop /\ [][NextLoop]_vars

\* the call runs to its end once started
SpecLoopLive == SpecLoop /\ WF_vars(NextLoop)

\* ======================================================== process_scan
\* main.py:506-508  the refit thresholds (percent, mm, mm)
RefitOutlierAbove == 50
RefitLandmarkAbove == 10
RefitP95Above == 25
\* main.py:544  the landmark-crop thresholds (mm, percent)
CropLandmarkBelow == 12
CropOutlierBelow == 90
\* main.py:546  len(refined.points) >= 800
CropMinPoints == 800
\* main.py:443  len(gemini_frames) >= 3
GeminiMinFrames == 3

\* the parameters of fit_flame_mesh
FitterParameters ==
    {"point_cloud", "flame_model_path", "mediapipe_embedding_path", "fit_config",
     "max_seconds", "max_iters", "freeze_expression", "freeze_jaw"}

\* the three fit_flame_mesh calls of process_scan: the names of the
\* arguments passed and the two freeze flags
FirstFitCall ==
    [keywords |-> {"point_cloud", "flame_model_path", "mediapipe_embedding_path",
                   "fit_config", "max_seconds", "max_iters", "freeze_expression",
                   "freeze_jaw", "initial_shape_params"},
     freeze_expression |-> FALSE, freeze_jaw |-> TRUE]

RefitCall ==
    [keywords |-> {"point_cloud", "flame_model_path", "mediapipe_embedding_path",
                   "fit_config", "max_seconds", "max_iters", "freeze_expression",
                   "freeze_jaw", "initial_shape_params"},
     freeze_expression |-> TRUE, freeze_jaw |-> TRUE]

CropFitCall ==
    [keywords |-> {"point_cloud", "flame_model_path", "mediapipe_embedding_path",
                   "fit_config", "max_seconds", "max_iters", "freeze_expression",
                   "freeze_jaw"},
     freeze_expression |-> TRUE, freeze_jaw |-> TRUE]

\* a Python call: the arguments are bound to the parameters first, and a
\* keyword that names no parameter raises TypeError before the body runs
Call(call, body) ==
    IF call.keywords \subseteq FitterParameters THEN body
    ELSE [kind |-> "TypeError"]

\* the thresholds of the FitConfig built by process_scan (the defaults)
JobConfig ==
    [max_surface_mm_p95 |-> 6, max_nose_mm_p95 |-> 4, max_landmark_mm |-> 4]

\* metrics of a fit as process_scan computes them from the returned mesh
JobMetricChoices ==
    [p95_mm : {5, NonRigidP95Below, RefitP95Above + 1}, nose_p95_mm : {1},
     landmark_rms_mm : {3, RefitLandmarkAbove + 1}, outlier_ratio : {5}]

\* what the body of fit_flame_mesh does for the cloud of the scan with the
\* flags of each call: it raises (too sparse, diverged), or returns
FitOutcomes(metrics) ==
    { [kind |-> "ValueError"] } \cup
    [kind : {"ok"}, sparse_mode : BOOLEAN, timed_out : {FALSE}, metrics : metrics]
    \cup [kind : {"ok"}, sparse_mode : {FALSE}, timed_out : {TRUE}, metrics : metrics]

OkOutcomes(p95s) ==
    [kind : {"ok"}, sparse_mode : {FALSE}, timed_out : {FALSE},
     metrics : [p95_mm : p95s, nose_p95_mm : {1}, landmark_rms_mm : {3},
                outlier_ratio : {5}]]

\* a scan; the provider is asked for a shape vector only when at least
\* three frames were uploaded (main.py:443)
ScanChoices ==
  { s \in
    [assets_ok : BOOLEAN,                 \* model files present on the server
     readable : BOOLEAN,                  \* read_point_cloud_from_path succeeds
     point_cloud : [empty : {FALSE}, diag : {DiagSuspectBelow - 1, 30}],
     unit_scale : {<<>>},
     units : {"None"},
     gemini_frames : {0, GeminiMinFrames},
     initial_shape_params : {"None", "vector"},
     fit1 : FitOutcomes(JobMetricChoices),
     refit : { [kind |-> "ValueError"] } \cup OkOutcomes({4, 5, 20}),
     crop : { [kind |-> "ValueError"] } \cup OkOutcomes({3, 4}),
     refined_points : {CropMinPoints - 1, CropMinPoints},
     nonrigid : NonRigidOutcomes,
     save_ok : BOOLEAN] :
    s.initial_shape_params = "vector" => s.gemini_frames >= GeminiMinFrames }

NoFit == [source |-> "none"]

NoNonRigid == [kind |-> "none"]

\* mesh, flags, metrics and QC of one returned fit
FitOf(source, out) ==
    [source |-> source,
     sparse_mode |-> out.sparse_mode,
     timed_out |-> out.timed_out,
     metrics |-> out.metrics,
     qc |-> FinalQC(out.metrics, JobConfig, out.sparse_mode, out.timed_out)]

ShouldRefit(metrics) ==
    \/ metrics.outlier_ratio > RefitOutlierAbove
    \/ metrics.landmark_rms_mm > RefitLandmarkAbove
    \/ metrics.p95_mm > RefitP95Above

\* the landmark-crop refit runs when the first-pass landmarks are stable
\* and the crop keeps enough points
CropRefitRuns(metrics, refined_points) ==
    /\ metrics.landmark_rms_mm < CropLandmarkBelow
    /\ metrics.outlier_ratio < CropOutlierBelow
    /\ refined_points >= CropMinPoints

\* the candidate replaces the current result when its p95 is strictly lower
Adopt(current, candidate) ==
    IF candidate.metrics.p95_mm < current.metrics.p95_mm THEN candidate
    ELSE current

\* the payload update_status stores for the scan: a message or a stage that
\* is empty is left out of it; the message is a list of words
Payload(state, message, label) ==
    [state |-> state, message |-> message, stage |-> label]

Stage(label) == Payload("processing", <<>>, label)

\* the except clause without its update_status call
Failed_NoStatus(message, calls, units, status) ==
    [state |-> "failed", message |-> message, calls |-> calls, units |-> units,
     fit |-> NoFit, nonrigid |-> NoNonRigid, stored |-> {},
     metrics_of |-> "none",
     status |-> status]

\* the except clause of process_scan: update_status(scan_id, "failed", str(exc))
Failed(message, calls, units, status) ==
    [state |-> "failed", message |-> message, calls |-> calls, units |-> units,
     fit |-> NoFit, nonrigid |-> NoNonRigid, stored |-> {},
     metrics_of |-> "none",
     status |-> Append(status, Payload("failed", <<message>>, ""))]

\* the non-rigid phase and the export of the adopted fit; the metrics and
\* the QC of the adopted fit were computed on the mesh the fitter returned
Export(s, calls, units, r, status) ==
    [state |-> "ready", message |-> "", calls |-> calls, units |-> units,
     fit |-> r,
     metrics_of |-> "model_space",
     status |-> status \o <<Stage("nonrigid_deform"), Stage("overlay"),
                            Stage("export"), Payload("ready", <<>>, "")>>,
     nonrigid |-> NonRigidStage([sparse_mode |-> r.sparse_mode,
                                 timed_out |-> r.timed_out,
                                 p95_mm |-> r.metrics.p95_mm],
                                s.nonrigid, s.save_ok),
     stored |-> {"flame_buffers", "glb", "landmarks", "diagnostics"}]

\* process_scan from the first QC on: refit, landmark-crop refit, adoption
AfterFirstFit(s, units, r1, status) ==
    IF ~ShouldRefit(r1.metrics) THEN Export(s, <<FirstFitCall>>, units, r1, status)
    ELSE
      LET refit == Call(RefitCall, s.refit)
          calls2 == <<FirstFitCall, RefitCall>>
          calls3 == <<FirstFitCall, RefitCall, CropFitCall>>
          status2 == Append(status, Stage("refit"))
      IN  IF refit.kind # "ok" THEN Failed(refit.kind, calls2, units, status2)
          ELSE IF ~CropRefitRuns(r1.metrics, s.refined_points)
          THEN Export(s, calls2, units, Adopt(r1, FitOf("refit", refit)), status2)
          ELSE
            LET crop == Call(CropFitCall, s.crop)
            IN  IF crop.kind # "ok" THEN Failed(crop.kind, calls3, units, status2)
                ELSE Export(s, calls3, units,
                            Adopt(r1, Adopt(FitOf("refit", refit),
                                            FitOf("crop", crop))),
                            status2)

\* the status payloads from the units stage to the fit stage: the warnings
\* of the unit normalizer are the message of a second units payload, which
\* the crop payload replaces
StatusToFit(s, units, status) ==
    status
    \o <<Stage("units")>>
    \o (IF units.warnings # <<>>
        THEN <<Payload("processing", units.warnings, "units")>> ELSE <<>>)
    \o <<Stage("crop"), Stage("preprocess")>>
    \o (IF s.gemini_frames >= GeminiMinFrames THEN <<Stage("gemini")>> ELSE <<>>)
    \o <<Stage("fit")>>

\* the whole background task
process_scan(s, status) ==
    IF ~s.assets_ok THEN Failed("HTTPException", <<>>, Idle, status)
    ELSE IF ~s.readable
    THEN Failed("HTTPException", <<>>, Idle, Append(status, Stage("read")))
    ELSE
      LET units == normalize_units(s.point_cloud, s.unit_scale, s.units)
          first == Call(FirstFitCall, s.fit1)
          atfit == StatusToFit(s, units, Append(status, Stage("read")))
      IN  IF first.kind # "ok"
          THEN Failed(first.kind, <<FirstFitCall>>, units, atfit)
          ELSE AfterFirstFit(s, units, FitOf("first", first), atfit)

\* create_scan has stored the upload and set the status to processing
InitJob ==
    /\ scan \in ScanChoices
    /\ job = [state |-> "processing", message |-> "", calls |-> <<>>,
              units |-> Idle, fit |-> NoFit, nonrigid |-> NoNonRigid,
              stored |-> {}, metrics_of |-> "none",
              status |-> <<Payload("processing", <<>>, "")>>]
    /\ FitIdle /\ QCIdle /\ UnitsIdle /\ NonRigidIdle /\ BlocksIdle

ProcessScan ==
    /\ job.state = "processing"
    /\ job' = process_scan(scan, job.status)
    /\ UNCHANGED <<fitvars, scan, callvars, blockvars>>

NextJob == ProcessScan

SpecJob == InitJob /\ [][NextJob]_vars

\* create_scan hands process_scan to the background tasks of the response
\* (main.py:876-886), which run it once the response is sent
SpecJobLive == InitJob /\ [][NextJob]_vars /\ WF_vars(ProcessScan)

\* ------------------------------------------- the artifact store (main.py)
\* The export block of process_scan (main.py:721-730) of several jobs.
\* process_scan is a plain function, so the background tasks of different
\* requests run it in different worker threads, and all of them work on the
\* module-level tables SCAN_STORE, SCAN_ORDER, SCAN_LANDMARKS,
\* SCAN_DIAGNOSTICS and SCAN_STATUS (main.py:43-47) with no lock.  A path is
\* determined by its scan id (main.py:293, 317, 327), so each path table is
\* represented by its set of keys.  Scan ids are uuid4 values (main.py:794):
\* the scans are named 1, 2, ... in the order of their store_glb calls.

\* number of scans that reach the export block
MaxStores == 12
\* number of jobs that are inside the export block at the same time
MaxInFlight == 2

\* main.py:48
MAX_SCANS == 10

ScanIds == 1..MaxStores

InFlight ==
    {j \in ScanIds :
        exporting[j] \in {"evict", "store_landmarks", "store_diagnostics"}}

Pipeline == {j \in ScanIds : exporting[j] = "pipeline"}

\* create_scan has set every scan to processing (main.py:875); no job has
\* reached its export block and the tables are as at import
InitStore ==
    /\ SCAN_STORE = {}
    /\ SCAN_ORDER = <<>>
    /\ SCAN_LANDMARKS = {}
    /\ SCAN_DIAGNOSTICS = {}
    /\ SCAN_STATUS = [j \in ScanIds |-> "processing"]
    /\ exporting = [j \in ScanIds |-> "pipeline"]
    /\ FitIdle /\ QCIdle /\ UnitsIdle /\ NonRigidIdle /\ JobIdle
    /\ CropIdle /\ LaplacianIdle /\ SystemIdle /\ LoopIdle

StoreUnchanged ==
    UNCHANGED <<fitvars, jobvars, callvars, crop_in, crop_out, lap_in,
                laplacian, sys_in, system, icp>>

\* store_glb up to the append, main.py:292-298
StoreGlb(j) ==
    /\ exporting[j] = "pipeline"
    /\ \A i \in Pipeline : j <= i
    /\ Cardinality(InFlight) < MaxInFlight
    /\ SCAN_STORE' = SCAN_STORE \cup {j}
    /\ SCAN_ORDER' = Append(SCAN_ORDER, j)
    /\ exporting' = [exporting EXCEPT ![j] = "evict"]
    /\ UNCHANGED <<SCAN_LANDMARKS, SCAN_DIAGNOSTICS, SCAN_STATUS>>
    /\ StoreUnchanged

\* the rest of store_glb, main.py:300-312: the length test and the eviction
Evict(j) ==
    /\ exporting[j] = "evict"
    /\ IF Len(SCAN_ORDER) > MAX_SCANS
       THEN LET stale_id == Head(SCAN_ORDER)
            IN  /\ SCAN_ORDER' = Tail(SCAN_ORDER)
                /\ SCAN_STORE' = SCAN_STORE \ {stale_id}
                /\ SCAN_LANDMARKS' = SCAN_LANDMARKS \ {stale_id}
                /\ SCAN_DIAGNOSTICS' = SCAN_DIAGNOSTICS \ {stale_id}
       ELSE UNCHANGED <<SCAN_ORDER, SCAN_STORE, SCAN_LANDMARKS,
                        SCAN_DIAGNOSTICS>>
    /\ exporting' = [exporting EXCEPT ![j] = "store_landmarks"]
    /\ UNCHANGED SCAN_STATUS
    /\ StoreUnchanged

\* store_landmarks, main.py:315-322
StoreLandmarks(j) ==
    /\ exporting[j] = "store_landmarks"
    /\ SCAN_LANDMARKS' = SCAN_LANDMARKS \cup {j}
    /\ exporting' = [exporting EXCEPT ![j] = "store_diagnostics"]
    /\ UNCHANGED <<SCAN_STORE, SCAN_ORDER, SCAN_DIAGNOSTICS, SCAN_STATUS>>
    /\ StoreUnchanged

\* store_diagnostics and the final status, main.py:729-730
StoreDiagnostics(j) ==
    /\ exporting[j] = "store_diagnostics"
    /\ SCAN_DIAGNOSTICS' = SCAN_DIAGNOSTICS \cup {j}
    /\ SCAN_STATUS' = [SCAN_STATUS EXCEPT ![j] = "ready"]
    /\ exporting' = [exporting EXCEPT ![j] = "ready"]
    /\ UNCHANGED <<SCAN_STORE, SCAN_ORDER, SCAN_LANDMARKS>>
    /\ StoreUnchanged

NextStore ==
    \E j \in ScanIds :
        \/ StoreGlb(j)
        \/ Evict(j)
        \/ StoreLandmarks(j)
        \/ StoreDiagnostics(j)

SpecStore == InitStore /\ [][NextStore]_vars

\* ------------------------------------------------------------------ claims
names(rs) == [i \in 1..Len(rs) |-> rs[i].name]

StageOrder == <<"rigid", "expression", "shape">>

IsPrefix(a, b) == Len(a) <= Len(b) /\ \A i \in 1..Len(a) : a[i] = b[i]

Changed(p, q) == {f \in DOMAIN p : p[f] # q[f]}

Running == fpc \in {"loop", "stage_end"}

\* C1: the stages run in the order rigid, expression, shape, and a step of a
\* stage changes only that stage's trainable tensors: in the rigid stage only
\* pose, translation and scale (shape and expression are still zero), in the
\* expression stage also expression (shape still zero), in the shape stage
\* also shape.
C1_Step ==
    /\ IsPrefix(names(stage_results'), StageOrder)
    /\ stage' # stage =>
          <<stage, stage'>> \in {<<"none", "rigid">>, <<"rigid", "expression">>,
                                 <<"expression", "shape">>}
    /\ stage' = "rigid" =>
          /\ Changed(params, params') \subseteq
                {"pose_head", "pose_jaw", "translation", "scale"}
          /\ params'.shape_params = 0 /\ params'.expression_params = 0
    /\ stage' = "expression" =>
          /\ Changed(params, params') \subseteq
                {"expression_params", "pose_head", "pose_jaw", "translation", "scale"}
          /\ params'.shape_params = 0
    /\ stage' = "none" => params' = params

C1_StagesTrainOnlyTheirSet == [][C1_Step]_vars

C1_Witness ==
    /\ fpc = "returned"
    /\ names(stage_results) = StageOrder
    /\ params.shape_params # 0
    /\ params.expression_params # 0
    /\ params.pose_head # 0

\* C2: a target cloud of fewer than 200 points fails as too sparse before any
\* optimizer step; with 200 to 499 points the fit runs with sparse_mode set
\* and only the rigid stage is ever executed and recorded; with 500 or more
\* points sparse_mode is false.
C2_SparseFallback ==
    /\ (cfg.target_count < 200 /\ fpc # "entry") =>
          fpc = "raised_sparse" /\ total_steps = 0 /\ stage_results = <<>>
    /\ fpc = "raised_sparse" => cfg.target_count < 200
    /\ (cfg.target_count >= 200 /\ cfg.target_count < 500 /\ fpc # "entry") =>
          /\ sparse_mode
          /\ stage = "rigid"
          /\ IsPrefix(names(stage_results), <<"rigid">>)
          /\ fpc = "returned" => names(stage_results) = <<"rigid">>
    /\ (cfg.target_count >= 500 /\ fpc # "entry") => ~sparse_mode

C2_Witness ==
    /\ cfg.target_count = 499
    /\ ~cfg.freeze_expression
    /\ fpc = "returned"
    /\ sparse_mode
    /\ total_steps >= 1
    /\ names(stage_results) = <<"rigid">>

\* C3 as stated: a target cloud of exactly 200 points is rejected as too
\* sparse, no stage runs and nothing is returned.
C3_Original ==
    (cfg.target_count = 200 /\ fpc # "entry") =>
        fpc = "raised_sparse" /\ stage_results = <<>> /\ total_steps = 0

\* C3 amended: a target cloud of exactly 200 points is accepted and fitted in
\* sparse mode (rigid stage only); the too-sparse failure is raised for 199
\* points.
C3_Amended ==
    /\ (cfg.target_count = 200 /\ fpc # "entry") =>
          /\ fpc # "raised_sparse"
          /\ sparse_mode
          /\ stage = "rigid"
    /\ (cfg.target_count = 199 /\ fpc # "entry") =>
          fpc = "raised_sparse" /\ stage_results = <<>> /\ total_steps = 0

C3_Witness ==
    /\ cfg.target_count = 200
    /\ fpc = "returned"
    /\ Len(stage_results) = 1
    /\ stage_results[1].name = "rigid"
    /\ total_steps >= 1

InBox(p, jaw_max) ==
    /\ Abs(p.shape_params) <= 400
    /\ Abs(p.expression_params) <= 400
    /\ Abs(p.pose_head) <= 100
    /\ Abs(p.pose_jaw) <= jaw_max
    /\ p.scale >= 50 /\ p.scale <= 200

\* C4 as stated: for every jaw_max_rad and every stage, once an optimizer
\* step has completed the parameters satisfy the box constraints.
C4_Original == total_steps >= 1 => InBox(params, cfg.jaw_max_rad)

\* C4 amended: the same for every configuration with jaw_max_rad >= 0.
C4_Amended ==
    (total_steps >= 1 /\ cfg.jaw_max_rad >= 0) => InBox(params, cfg.jaw_max_rad)

C4_Witness ==
    /\ stage = "shape" /\ step >= 1
    /\ cfg.jaw_max_rad = 35 /\ ~cfg.freeze_jaw
    /\ params.pose_jaw = 35
    /\ params.pose_head = 100
    /\ params.scale = 200
    /\ params.shape_params = 400
    /\ params.expression_params = 400

\* C5: with freeze_jaw the jaw entries of pose are zero before the first
\* step, after every step of every stage and when the fit returns, however
\* the stages ended.
C5_FrozenJawZero == cfg.freeze_jaw => params.pose_jaw = 0

C5_Witness ==
    /\ cfg.freeze_jaw
    /\ fpc = "returned"
    /\ timed_out
    /\ names(stage_results) = StageOrder
    /\ params.pose_head # 0
    /\ total_steps >= 3

\* the early stop of one completed step, with the improvement test given
EarlyStopStep(improved) ==
    /\ total_steps' = total_steps + 1 =>
          /\ isfinite(loss_value')
          /\ IF improved
             THEN best_loss' = loss_value' /\ stale_steps' = 0
             ELSE best_loss' = best_loss /\ stale_steps' = stale_steps + 1
    /\ stale_steps' <= 12
    /\ stale_steps' = 12 => fpc' # "loop"
    /\ Len(stage_results') = Len(stage_results) + 1 =>
          stage_results'[Len(stage_results')].loss = best_loss

\* C6 as stated: a step improves when it lowers the best loss by at least
\* 1e-4 (two loss units); an improvement resets the stale counter, any other
\* step increments it; the stage ends once 12 consecutive steps have not
\* improved; the stage record carries the best loss.
C6_Original ==
    [][EarlyStopStep(loss_value' + 2 <= best_loss)]_vars

\* C6 amended: a step improves when it lowers the best loss by more than
\* 1e-4; the rest as stated.
C6_Amended ==
    [][EarlyStopStep(loss_value' + 2 < best_loss)]_vars

C6_Witness ==
    /\ fpc = "stage_end"
    /\ stale_steps = 12
    /\ step < StepCap(stage, cfg)
    /\ best_loss = 0
    /\ ~timed_out

\* C7: each stage performs at most its own iters_stage steps and the steps of
\* all stages of one fit together never exceed max_iters.
C7_Claim ==
    /\ stage # "none" => step <= StageIters(stage, cfg)
    /\ total_steps <= cfg.max_iters

\* C8: when the wall-clock budget runs out during a fit, the fit still ends
\* by returning a mesh, with timed_out set and at least the rigid stage
\* record.
C8_Claim ==
    (timed_out /\ ~Running) =>
        /\ fpc = "returned"
        /\ Len(stage_results) >= 1
        /\ stage_results[1].name = "rigid"

\* C9: once the timeout flag is set, no stage performs another optimizer
\* step.
C9_Claim == [][timed_out => total_steps' = total_steps]_vars

\* C10: the mesh is evaluated at the parameters at which the recorded best
\* loss was achieved.
C10_Claim ==
    (fpc = "returned" /\ isfinite(best_loss)) => params = best_params

\* C11: a step whose composite loss is NaN or infinite makes the fit fail at
\* that step, before the parameters are updated: the parameter tensors, the
\* count of completed optimizer steps and the stage records are those of the
\* step before, no completed step ever had a non-finite loss, and a fit that
\* has failed this way stays failed and returns no mesh.
C11_Step ==
    /\ fpc' = "raised_diverged" =>
          /\ ~isfinite(loss_value')
          /\ params' = params
          /\ total_steps' = total_steps
          /\ stage_results' = stage_results
    /\ total_steps' # total_steps => isfinite(loss_value')
    /\ fpc = "raised_diverged" => fpc' = "raised_diverged"

C11_FailedJobStoresNothing ==
    job.state = "failed" => job.stored = {} /\ job.fit = NoFit

\* the scan got as far as the first fit, and the fitter returns for its cloud
FirstPassReturns ==
    /\ job.state # "processing"
    /\ scan.assets_ok /\ scan.readable
    /\ scan.fit1.kind = "ok"

\* the three refit thresholds as the claims state them
RefitThresholdExceeded(m) ==
    m.outlier_ratio > 50 \/ m.landmark_rms_mm > 10 \/ m.p95_mm > 25

\* C12: process_scan calls the fitter a second time exactly when the
\* first-pass metrics have outlier_ratio > 0.5 or landmark_rms > 10 mm or
\* p95 > 25 mm, the second call has freeze_expression and freeze_jaw set, and
\* without an exceeded threshold the first-pass result is kept.
C12_Claim ==
    FirstPassReturns =>
        LET exceeded == RefitThresholdExceeded(scan.fit1.metrics)
        IN  /\ Len(job.calls) >= 2 <=> exceeded
            /\ Len(job.calls) >= 2 =>
                  job.calls[2].freeze_expression /\ job.calls[2].freeze_jaw
            /\ ~exceeded => job.fit.source = "first"

\* the fits of the scan all return
AllFitsReturn ==
    FirstPassReturns /\ scan.refit.kind = "ok" /\ scan.crop.kind = "ok"

\* the result the adoption cascade of the claims picks for the scan: the
\* crop refit replaces the plain refit only with a strictly lower p95, and
\* the refit candidate replaces the first pass only with a strictly lower p95
ClaimedAdopted ==
    LET first == [source |-> "first", out |-> scan.fit1]
        plain == [source |-> "refit", out |-> scan.refit]
        crop == [source |-> "crop", out |-> scan.crop]
        candidate ==
            IF /\ CropRefitRuns(scan.fit1.metrics, scan.refined_points)
               /\ crop.out.metrics.p95_mm < plain.out.metrics.p95_mm
            THEN crop ELSE plain
    IN  IF /\ RefitThresholdExceeded(scan.fit1.metrics)
           /\ candidate.out.metrics.p95_mm < first.out.metrics.p95_mm
        THEN candidate ELSE first

\* C13: the job ends with the result of the adoption cascade: mesh, flags,
\* metrics and QC are those of the adopted fit, and the final p95 is not
\* above the first-pass p95.
C13_Claim ==
    AllFitsReturn =>
        /\ job.fit.source = ClaimedAdopted.source
        /\ job.fit.sparse_mode = ClaimedAdopted.out.sparse_mode
        /\ job.fit.timed_out = ClaimedAdopted.out.timed_out
        /\ job.fit.metrics = ClaimedAdopted.out.metrics
        /\ job.fit.qc = FinalQC(job.fit.metrics, JobConfig, job.fit.sparse_mode,
                                job.fit.timed_out)
        /\ job.fit.metrics.p95_mm <= scan.fit1.metrics.p95_mm

\* C14: with freeze_expression set and a cloud of 500 points or more the
\* expression and shape stages still run, so the returned fit carries the
\* three stage records and only sparse mode reduces them to the rigid one.
C14_Claim ==
    (fpc = "returned" /\ ~sparse_mode) => names(stage_results) = StageOrder

\* C15: process_scan calls deform_template_to_scan exactly when the adopted
\* fit is not sparse, did not time out and has p95 below 20 mm; otherwise
\* the exported mesh is the model-space mesh.
C15_Claim ==
    AllFitsReturn =>
        LET a == ClaimedAdopted.out
            gate == ~a.sparse_mode /\ ~a.timed_out /\ a.metrics.p95_mm < 20
        IN  /\ job.nonrigid.kind = "result"
            /\ job.nonrigid.deform_called <=> gate
            /\ ~gate => job.nonrigid.mesh = "model_space"

\* C16: the deformed vertices replace the mesh and the displacement field is
\* kept only when the deformation was called, returned a result with
\* converged or mean_error < 10 mm, and the stage did not raise; in every
\* other case the exported mesh is the model-space mesh and no displacement
\* field is kept.
C16_Claim ==
    nr_out.kind = "result" =>
        LET a == nr_in.adopted
            accepted ==
                /\ ~a.sparse_mode /\ ~a.timed_out /\ a.p95_mm < 20
                /\ nr_in.nonrigid.kind = "result"
                /\ nr_in.nonrigid.converged \/ nr_in.nonrigid.mean_error < 10
                /\ ~nr_out.raised
        IN  IF accepted
            THEN nr_out.mesh = "deformed" /\ nr_out.mesh_displacements
            ELSE nr_out.mesh = "model_space" /\ ~nr_out.mesh_displacements

\* C17: whenever the deformed mesh is the one exported, the p95 error of the
\* non-rigid result is lower than the p95 of the model-space mesh it
\* replaces.
C17_Claim ==
    (nr_out.kind = "result" /\ nr_out.mesh = "deformed") =>
        nr_in.nonrigid.p95_error < nr_in.adopted.p95_mm

Has(warnings, w) == \E i \in DOMAIN warnings : warnings[i] = w

FailingWarnings ==
    {"HIGH_SURFACE_ERROR", "HIGH_NOSE_ERROR", "LANDMARK_MISMATCH",
     "POINTCLOUD_SPARSE", "FIT_TIMEOUT"}

\* C18: in the QC of a fit each warning is present exactly under its
\* condition (p95 above max_surface_mm_p95, nose p95 above max_nose_mm_p95,
\* landmark RMS above max_landmark_mm, sparse mode, timeout, outlier ratio
\* above 0.1), and pass_fit is true exactly when none of the first five is
\* present; HIGH_OUTLIER_RATIO leaves pass_fit as it is.
C18_QCVerdict ==
    qc.kind = "qc" =>
        LET m == qc_in.metrics
            c == qc_in.config
        IN  /\ Has(qc.warnings, "HIGH_SURFACE_ERROR") <=>
                  m.p95_mm > c.max_surface_mm_p95
            /\ Has(qc.warnings, "HIGH_NOSE_ERROR") <=>
                  m.nose_p95_mm > c.max_nose_mm_p95
            /\ Has(qc.warnings, "LANDMARK_MISMATCH") <=>
                  m.landmark_rms_mm > c.max_landmark_mm
            /\ Has(qc.warnings, "POINTCLOUD_SPARSE") <=> qc_in.sparse_mode
            /\ Has(qc.warnings, "FIT_TIMEOUT") <=> qc_in.timed_out
            /\ Has(qc.warnings, "HIGH_OUTLIER_RATIO") <=> m.outlier_ratio > 10
            /\ qc.pass_fit <=> \A w \in FailingWarnings : ~Has(qc.warnings, w)

C18_Witness ==
    /\ qc.kind = "qc"
    /\ qc.pass_fit
    /\ qc.warnings = <<"HIGH_OUTLIER_RATIO">>
    /\ qc_in.metrics.p95_mm = qc_in.config.max_surface_mm_p95

\* C19: for non-negative metrics and positive thresholds the confidence of
\* build_qc is 1 - min(p95 / (2 p95_max), 0.5) - min(nose_p95 / (2 nose_max),
\* 0.3) - min(landmark_rms / (2 lmk_max), 0.2) and lies in [0, 1].  Both sides
\* are multiplied by 20 p95_max nose_max lmk_max and by the denominator of
\* the confidence.
C19_Confidence ==
    qc.kind = "qc" =>
        LET m == qc_in.metrics
            tp == qc_in.config.max_surface_mm_p95
            tn == qc_in.config.max_nose_mm_p95
            tl == qc_in.config.max_landmark_mm
            k == 20 * tp * tn * tl
            capped ==
                k - (IF m.p95_mm < tp THEN 10 * m.p95_mm * tn * tl
                     ELSE 10 * tp * tn * tl)
                  - (IF 10 * m.nose_p95_mm < 6 * tn THEN 10 * m.nose_p95_mm * tp * tl
                     ELSE 6 * tp * tn * tl)
                  - (IF 10 * m.landmark_rms_mm < 4 * tl
                     THEN 10 * m.landmark_rms_mm * tp * tn
                     ELSE 4 * tp * tn * tl)
        IN  /\ qc.confidence.num * k = capped * qc.confidence.den
            /\ qc.confidence.num >= 0
            /\ qc.confidence.num <= qc.confidence.den

C19_Witness ==
    /\ qc.kind = "qc"
    /\ qc_in.metrics.p95_mm > 2 * qc_in.config.max_surface_mm_p95
    /\ qc_in.metrics.nose_p95_mm = 1
    /\ qc_in.metrics.landmark_rms_mm = 0
    /\ qc.confidence.num * 10 = qc.confidence.den * 4

UnitRule(label, factor, suspect) ==
    /\ unit_result.units_inferred = label
    /\ unit_result.unit_scale_applied = factor
    /\ Has(unit_result.warnings, "UNIT_SUSPECT") <=> suspect

\* the rule order of the claim, applied to the arguments of the call
UnitRuleOrder ==
    LET s == unit_in.override_scale
        u == unit_in.override_units
        d == unit_in.point_cloud.diag
    IN  IF s # <<>> /\ s[1] > 0 THEN UnitRule("override", s[1], FALSE)
        ELSE IF u = "meters" THEN UnitRule("meters", 1000, FALSE)
        ELSE IF u = "millimeters" THEN UnitRule("millimeters", 1, FALSE)
        ELSE IF d > 100 THEN UnitRule("millimeters", 1, FALSE)
        ELSE IF d < 2 THEN UnitRule("unknown", 1000, TRUE)
        ELSE UnitRule("meters", 1000, FALSE)

\* C20 as stated: for every call normalize_units applies the first matching
\* rule of: positive override_scale; override_units 'meters' or
\* 'millimeters'; diagonal > 1; diagonal < 0.02 (the only rule that emits
\* UNIT_SUSPECT); otherwise meters.
C20_Original == unit_result.kind = "result" => UnitRuleOrder

\* C20 amended: the same for every non-empty cloud; an empty cloud is
\* returned as 'unknown' with factor 1 and the warning POINTCLOUD_EMPTY,
\* whatever the overrides.
C20_Amended ==
    unit_result.kind = "result" =>
        IF unit_in.point_cloud.empty
        THEN /\ UnitRule("unknown", 1000, FALSE)
             /\ unit_result.warnings = <<"POINTCLOUD_EMPTY">>
        ELSE UnitRuleOrder

C20_Witness ==
    /\ unit_result.kind = "result"
    /\ ~unit_in.point_cloud.empty
    /\ unit_in.point_cloud.diag > 100
    /\ unit_in.override_units = "millimeters"
    /\ unit_in.override_scale = <<2500>>
    /\ unit_result.units_inferred = "override"
    /\ unit_result.unit_scale_applied = 2500

\* the payload the status table holds for the scan
FinalPayload == job.status[Len(job.status)]

\* C21: warnings are additive across the pipeline: when the unit normalizer
\* emits UNIT_SUSPECT for a job, the finished job still reports it, in the
\* QC warnings of its result or in its final status payload.
C21_Claim ==
    (/\ job.state # "processing"
     /\ job.units # Idle
     /\ Has(job.units.warnings, "UNIT_SUSPECT")) =>
        \/ Has(FinalPayload.message, "UNIT_SUSPECT")
        \/ job.fit # NoFit /\ Has(job.fit.qc.warnings, "UNIT_SUSPECT")

\* C22: crop_face_region returns either the input cloud unchanged or a
\* subset of its points, with the matching colours, that satisfies all four
\* conditions (x and y within their 10th-90th percentiles, z within the near
\* 60% of the depth, inside the radial mask); it returns the input whenever
\* the mask would keep fewer than 20% of the points, so a cropped result
\* holds at least 20% of the input points.
C22_CropContract ==
    crop_out # Idle =>
        LET pts == crop_in.points
            n == SumCounts(pts)
            b == CropBox(pts)
            out == crop_out.cloud
            satisfying ==
                {i \in 1..Len(pts) :
                    InPercentiles(pts[i], b) /\ InNearDepth(pts[i], b)
                    /\ InRadius(pts[i], b)}
        IN  /\ \/ out = crop_in
               \/ /\ \E I \in SUBSET satisfying :
                        /\ out.points = Masked(pts, I, 1)
                        /\ out.colors = Masked(crop_in.colors, I, 1)
                  /\ 5 * SumCounts(out.points) >= n
            /\ 5 * CountOf(pts, satisfying) < n => out = crop_in

C22_Witness ==
    /\ crop_out # Idle
    /\ crop_out.cropped
    /\ crop_in.colors # <<>>
    /\ Len(crop_out.cloud.points) < Len(crop_in.points)
    /\ 5 * SumCounts(crop_out.cloud.points) = SumCounts(crop_in.points)

RowSum(M, V, i) == SumOver(V, M[i])

OffDiagonal(M, V, i) == SumOver(V \ {i}, [j \in V |-> Abs(M[i][j])])

\* C23: for every vertex count and every face list, including faces that
\* share edges, isolated vertices and degenerate faces with a repeated
\* vertex, the matrix built by build_laplacian_matrix is symmetric, has
\* every row summing to zero and is diagonally dominant.
C23_Laplacian ==
    laplacian # Idle =>
        LET V == Vertices(lap_in.n_verts)
            L == laplacian.L
        IN  /\ \A i, j \in V : L[i][j] = L[j][i]
            /\ \A i \in V : RowSum(L, V, i) = 0
            /\ \A i \in V : Abs(L[i][i]) >= OffDiagonal(L, V, i)

\* a face with a repeated vertex next to a proper triangle, and an isolated
\* vertex in another mesh of the same run
C23_Witness ==
    /\ laplacian # Idle
    /\ lap_in.n_verts = 3
    /\ lap_in.faces = <<<<0, 0, 1>>, <<0, 1, 2>>>>
    /\ laplacian.L[0][0] = 2 /\ laplacian.L[0][1] = -1 /\ laplacian.L[0][2] = -1

BelowThreshold(c) == ~c.nan /\ c.v < ConvergenceThreshold

C24_Inv ==
    LET h == icp.changes
    IN  /\ icp.iterations_used <= icp.max_iterations
        /\ icp.iterations_used = Len(h)
        /\ \A i \in 1..(Len(h) - 1) : ~BelowThreshold(h[i])
        /\ icp.converged <=> (Len(h) >= 1 /\ BelowThreshold(h[Len(h)]))
        /\ icp.converged => icp.pc # "loop"
        /\ Len(h) >= 1 => icp.vertices.nan = h[Len(h)].nan
        /\ (icp.pc # "loop" /\ ~icp.converged) =>
              icp.iterations_used = icp.max_iterations

C25_Claim ==
    (/\ job.state # "processing"
     /\ scan.initial_shape_params = "vector"
     /\ Len(job.calls) >= 1) =>
        /\ job.message # "TypeError"
        /\ scan.fit1.kind = "ok" => (job.fit # NoFit \/ Len(job.calls) >= 2)

\* what the tables hold for scan a
Entries(a) ==
    [glb |-> a \in SCAN_STORE,
     order |-> \E i \in 1..Len(SCAN_ORDER) : SCAN_ORDER[i] = a,
     landmarks |-> a \in SCAN_LANDMARKS,
     diagnostics |-> a \in SCAN_DIAGNOSTICS,
     status |-> SCAN_STATUS[a]]

\* C26: jobs that run concurrently share no mutable state: a step of one
\* job leaves untouched everything the tables hold for another job that is
\* still inside its export block.
C26_Claim ==
    [][\A a \in ScanIds :
          (a \in InFlight /\ exporting'[a] = exporting[a])
              => Entries(a)' = Entries(a)]_vars

\* the stage labels of the payloads, in the order they were reported
StageLabels(status) ==
    LET staged == SelectSeq(status, LAMBDA p : p.stage # "")
    IN  [i \in 1..Len(staged) |-> staged[i].stage]

RECURSIVE Squash(_)
\* a label reported twice in a row counts once
Squash(q) ==
    IF Len(q) <= 1 THEN q
    ELSE IF q[1] = q[2] THEN Squash(Tail(q))
    ELSE <<q[1]>> \o Squash(Tail(q))

PipelineLabels(refit) ==
    <<"read", "units", "crop", "preprocess", "fit">>
    \o (IF refit THEN <<"refit">> ELSE <<>>)
    \o <<"nonrigid_deform", "metrics", "export">>

\* C27: the stage labels a job reports form, in order, the sequence read,
\* units, crop, preprocess, fit, optionally refit, nonrigid_deform, metrics,
\* export (a job that fails reports a prefix of it), with no other label,
\* and the metrics and the QC verdict of a finished job are those of the
\* mesh that is exported.
C27_Claim ==
    LET labels == Squash(StageLabels(job.status))
    IN  /\ \E refit \in BOOLEAN : IsPrefix(labels, PipelineLabels(refit))
        /\ job.state = "ready" =>
              /\ \E refit \in BOOLEAN : labels = PipelineLabels(refit)
              /\ job.metrics_of = job.nonrigid.mesh

\* x.T @ A @ x
QuadraticForm(A, V, x) ==
    SumOver(V, [i \in V |-> SumOver(V, [j \in V |-> x[i] * A[i][j] * x[j]])])

\* C28: in every non-rigid iteration the system matrix A = W + stiffness *
\* L^T L + diag(landmark weights) is symmetric positive definite, hence
\* uniquely solvable, for every correspondence mask, including masks where
\* a connected component of the mesh (or an isolated vertex) has no valid
\* correspondence and no landmark pin: x^T A x > 0 for every non-zero x.
C28_Claim ==
    system # Idle =>
        LET V == Vertices(sys_in.n_verts)
            A == system.A
        IN  /\ \A i, j \in V : A[i][j] = A[j][i]
            /\ \A x \in [V -> {-1, 0, 1}] :
                  (\E i \in V : x[i] # 0) => QuadraticForm(A, V, x) > 0

Terminal == {"ready", "failed"}

C29_Inv ==
    /\ \A i \in 1..(Len(job.status) - 1) : job.status[i].state = "processing"
    /\ FinalPayload.state \in {"processing"} \cup Terminal
    /\ FinalPayload.state = "ready" =>
          {"glb", "landmarks", "diagnostics"} \subseteq job.stored

C29_Step == FinalPayload.state \in Terminal => job.status' = job.status

StoredIds == {SCAN_ORDER[i] : i \in 1..Len(SCAN_ORDER)}

\* the scans whose store_glb call has appended them and that have left
\* SCAN_ORDER since
Evicted == {j \in ScanIds : exporting[j] # "pipeline" /\ j \notin StoredIds}

InsideStoreGlb == \E j \in ScanIds : exporting[j] = "evict"

\* C30: after any sequence of store_glb calls with distinct scan ids,
\* SCAN_ORDER holds at most MAX_SCANS ids in insertion order, SCAN_STORE has
\* exactly those ids as keys, the oldest id is evicted first, and an evicted
\* scan has no entry left in SCAN_STORE, SCAN_LANDMARKS or SCAN_DIAGNOSTICS.
C30_Claim ==
    ~InsideStoreGlb =>
        /\ Len(SCAN_ORDER) <= MAX_SCANS
        /\ \A i \in 1..(Len(SCAN_ORDER) - 1) : SCAN_ORDER[i] < SCAN_ORDER[i + 1]
        /\ SCAN_STORE = StoredIds
        /\ \A e \in Evicted : \A k \in StoredIds : e < k
        /\ Evicted \cap (SCAN_STORE \cup SCAN_LANDMARKS \cup SCAN_DIAGNOSTICS)
               = {}

====
